---- MODULE Spec2Model ----
(***************************************************************************)
(* Variant generation of the Commander Spellbook backend                   *)
(* (backend/spellbook/variants.py): the MILP model of the combo catalog,   *)
(* the lexicographic solve, the per-seed enumeration, the validity check   *)
(* and the transactional reconciliation of the variant store.              *)
(***************************************************************************)
EXTENDS Integers, Sequences, FiniteSets, TLC

\* ------------------------------------------------------------------------
\* Program constants (variants.py:15-17)
\* ------------------------------------------------------------------------
RECURSION_LIMIT == 20
MAX_CARDS_IN_COMBO == 10

\* ------------------------------------------------------------------------
\* Bounds of the model
\* ------------------------------------------------------------------------
\* environment events in one behaviour: solver timeouts, database errors,
\* external status edits
MaxEvents == 1

\* ------------------------------------------------------------------------
\* Identifiers
\* ------------------------------------------------------------------------
CardIds == {1, 2, 3}
FeatureIds == {1, 2}
ComboIds == {1, 2}

\* Variant.Status
Status_NEW == "NEW"
Status_OK == "OK"
Status_NOT_WORKING == "NOT_WORKING"
Status_RESTORE == "RESTORE"
Status == {Status_NEW, Status_OK, Status_NOT_WORKING, Status_RESTORE}

VARIABLES
    \* the catalog (Data, variants.py:20-31); it does not change in a behaviour
    cards,          \* Card ids
    combos,         \* Combo id -> [includes, needs, produces, removes, generator]
    features,       \* Feature id -> [cards]
    \* the variant table: unique_id -> row
    variants,
    \* generate_variants
    pc,             \* position of the pass
    savepoint,      \* the variant table when transaction.atomic() was entered
    to_restore,     \* variants.py:259
    old_id_set,     \* variants.py:262
    model,          \* base_model(data), or NoModel
    variant_check_model,
    found,          \* the dict `variants` of generate_variants (line 269 / 289)
    todo,           \* position in `for unique_id, variant_def in variants.items()`
    ret,            \* the returned tuple
    failure,        \* the exception that ended the pass, or "none"
    \* get_variants_from_model
    pending,        \* generator combos the starmap has not reached
    seed,           \* the combo of the running variants_from_combo
    seed_model,     \* its model (combo_model)
    priorityc,      \* its priority dict
    result,         \* its result dict
    results,        \* the list `results` (line 246)
    \* history
    events,         \* environment events so far
    rounds,         \* card lists of the successful rounds of the running seed
    seedLog,        \* one entry per element of results: [seed, definitive]
    seedTimedOut,   \* a solve of the running seed timed out
    enumTimedOut,   \* a solve of this pass's enumeration timed out
    solved,         \* the solver was invoked in this pass
    touched,        \* unique ids created or updated in this pass
    checked,        \* the validity answers of this pass: [unique_id, ok, timedOut]
    prevDone,       \* the previous pass committed and nothing changed since
    prevDefinitive  \* ... and none of its enumeration solves timed out

vars == <<cards, combos, features, variants, pc, savepoint, to_restore, old_id_set,
          model, variant_check_model, found, todo, ret, failure, pending, seed,
          seed_model, priorityc, result, results, events, rounds, seedLog,
          seedTimedOut, enumTimedOut, solved, touched, checked, prevDone, prevDefinitive>>

catalog == <<cards, combos, features>>

\* ------------------------------------------------------------------------
\* Helpers on sets, sequences and dicts
\* ------------------------------------------------------------------------
Range(s) == {s[i] : i \in DOMAIN s}

Min(S) == CHOOSE x \in S : \A y \in S : x <= y

RECURSIVE sorted(_)
\* Python's sorted() on a collection of distinct integers
sorted(S) == IF S = {} THEN <<>> ELSE <<Min(S)>> \o sorted(S \ {Min(S)})

RECURSIVE sorted_by(_, _)
\* sorted(S, key=lambda c: key[c]) where S is iterated in ascending id order:
\* the sort is stable, so ties keep the ascending id order
sorted_by(S, key) ==
    IF S = {} THEN <<>>
    ELSE LET first == CHOOSE x \in S :
                        \A y \in S : key[x] < key[y] \/ (key[x] = key[y] /\ x <= y)
         IN <<first>> \o sorted_by(S \ {first}, key)

\* a Python dict is a sequence of [key, value] in insertion order
Keys(d) == {d[i].key : i \in DOMAIN d}
Get(d, k) == (CHOOSE e \in Range(d) : e.key = k).value
\* d[k] = v : an existing key keeps its position
Put(d, k, v) ==
    IF k \in Keys(d)
    THEN [i \in DOMAIN d |-> IF d[i].key = k THEN [key |-> k, value |-> v] ELSE d[i]]
    ELSE Append(d, [key |-> k, value |-> v])

RECURSIVE Update(_, _)
\* d.update(r)
Update(d, r) == IF r = <<>> THEN d ELSE Update(Put(d, Head(r).key, Head(r).value), Tail(r))

RECURSIVE Merge(_)
\* result = {}; for r in results: result.update(r)
Merge(rs) == IF rs = <<>> THEN <<>> ELSE Update(Merge(SubSeq(rs, 1, Len(rs) - 1)), rs[Len(rs)])

\* json.dumps(sorted(cards)) hashed with sha256: the digest stands for the
\* sorted list it is computed from
unique_id_from_cards_ids(card_list) == sorted(Range(card_list))

\* Feature.produced_by_combos: the reverse of Combo.produces
produced_by_combos(f) == {i \in ComboIds : f \in combos[i].produces}

\* ------------------------------------------------------------------------
\* priority_dict_for_combo (variants.py:40-52)
\* ------------------------------------------------------------------------
\* the outcome of a call: an exception or the returned dict (card -> depth),
\* with the number of calls of priority_dict_for_combo it took
Raised(calls) == [raised |-> TRUE, dict |-> <<>>, calls |-> calls]
Returned(d, calls) == [raised |-> FALSE, dict |-> d, calls |-> calls]

\* for card in ...: result[card.id] = depth
SetAll(d, keys, depth) ==
    [k \in (DOMAIN d) \cup keys |-> IF k \in keys THEN depth ELSE d[k]]

\* p1 | result : on a key of both, the right operand wins
DictUnion(p1, d) ==
    [k \in (DOMAIN p1) \cup (DOMAIN d) |-> IF k \in DOMAIN d THEN d[k] ELSE p1[k]]

\* a mis-translation of lines 41-42: the call at the limit returns an empty
\* dict instead of raising
RecursionLimitTruncates == Returned(<<>>, 1)

\* lines 41-42: raise Exception('Recursion limit reached ...')
RecursionLimitReached == Raised(1)

RECURSIVE priority_dict_for_combo(_, _)
RECURSIVE priority_needs(_, _, _)
RECURSIVE priority_producers(_, _, _)

\* the inner loop `for combo in feature.produced_by_combos.all()`, in
\* ascending id order; an exception of a recursive call ends the loops
priority_producers(cs, recursion_counter, d) ==
    IF cs = <<>> THEN Returned(d, 0)
    ELSE LET p1 == priority_dict_for_combo(Head(cs), recursion_counter + 2)
         IN IF p1.raised THEN p1
            ELSE LET r == priority_producers(Tail(cs), recursion_counter,
                                             DictUnion(p1.dict, d))
                 IN [r EXCEPT !.calls = @ + p1.calls]

\* the outer loop `for feature in combo.needs.all()`, in ascending id order
priority_needs(fs, recursion_counter, d) ==
    IF fs = <<>> THEN Returned(d, 0)
    ELSE LET f == Head(fs)
             d1 == SetAll(d, features[f].cards, recursion_counter + 1)
             r == priority_producers(sorted(produced_by_combos(f)), recursion_counter, d1)
         IN IF r.raised THEN r
            ELSE LET r2 == priority_needs(Tail(fs), recursion_counter, r.dict)
                 IN [r2 EXCEPT !.calls = @ + r.calls]

priority_dict_for_combo(combo, recursion_counter) ==
    IF recursion_counter > RECURSION_LIMIT THEN RecursionLimitReached
    ELSE LET r == priority_needs(sorted(combos[combo].needs), recursion_counter,
                                 SetAll(<<>>, combos[combo].includes, recursion_counter))
         IN [r EXCEPT !.calls = @ + 1]

\* ------------------------------------------------------------------------
\* The MILP model (base_model, variants.py:111-169)
\* ------------------------------------------------------------------------
\* an assignment of the variables c, f, b: the sets of the variables at 1
Assignments == [c : SUBSET cards, f : SUBSET FeatureIds, b : SUBSET ComboIds]
NoValue == [c |-> {}, f |-> {}, b |-> {}]

Val(x, S) == IF x \in S THEN 1 ELSE 0

\* model.V (line 122)
ConstraintV(a) == Cardinality(a.c) <= MAX_CARDS_IN_COMBO

\* model.BC, model.BF, model.BCF (lines 127-141)
ComboConstraints(a) ==
    \A i \in ComboIds :
        LET b == Val(i, a.b)
            included == combos[i].includes
            needed == combos[i].needs
        IN /\ \A k \in included : b <= Val(k, a.c)
           /\ \A j \in needed : b <= Val(j, a.f)
           /\ b >= Cardinality(included \cap a.c) + Cardinality(needed \cap a.f)
                    - Cardinality(included) - Cardinality(needed) + 1

\* model.FC, model.FB, model.FCB (lines 146-159)
FeatureConstraints(a) ==
    \A j \in FeatureIds :
        LET f == Val(j, a.f)
        IN /\ \A k \in features[j].cards : f >= Val(k, a.c)
           /\ \A i \in produced_by_combos(j) : f >= Val(i, a.b)
           /\ f <= Cardinality(features[j].cards \cap a.c)
                    + Cardinality(produced_by_combos(j) \cap a.b)

\* a mis-translation of lines 183 and 240: the bound is len(card_id_list)
ExclusionOffByOne(excluded, a) ==
    Cardinality(excluded \cap a.c) <= Cardinality(excluded)

\* a mis-translation of lines 183 and 240: only the listed card set itself is
\* forbidden
ExclusionExactOnly(excluded, a) == a.c # excluded

\* sum(model.c[i] for i in card_id_list) <= len(card_id_list) - 1
\* (lines 183 and 240)
ExclusionHolds(excluded, a) ==
    Cardinality(excluded \cap a.c) <= Cardinality(excluded) - 1

\* the value of an objective's expression (lines 161-166 and 184)
ObjectiveValue(objective, a) ==
    CASE objective = "MinimizeCards" -> Cardinality(a.c)
      [] objective = "MaximizeFeatures" -> Cardinality(a.f)
      [] objective = "MaximizeCombos" -> Cardinality(a.b)
      [] objective = "obj" -> Cardinality(a.f) + Cardinality(a.b)

\* a constraint of model.Sequential (lines 201 and 206)
SequentialHolds(bound, a) ==
    IF bound.objective = "MinimizeCards"
    THEN ObjectiveValue("MinimizeCards", a) <= bound.value
    ELSE ObjectiveValue("MaximizeFeatures", a) >= bound.value

\* a mis-translation of base_model: lines 116-117 are missing
base_model_unguarded ==
    [none |-> FALSE, XB |-> {}, Variants |-> <<>>, Sequential |-> <<>>, active |-> {},
     fixed |-> [on |-> FALSE, cards |-> {}], value |-> [c |-> {}, f |-> {}, b |-> {}]]

\* None
NoModel == [none |-> TRUE]
\* model.c before any fix
NotFixed == [on |-> FALSE, cards |-> {}]

\* the model returned by base_model: None when there are no cards
base_model ==
    IF Cardinality(cards) = 0 THEN NoModel
    ELSE [none |-> FALSE,
          XB |-> {},             \* combos forced to 1 (combo_model)
          Variants |-> <<>>,     \* model.Variants: the excluded card sets
          Sequential |-> <<>>,   \* model.Sequential
          active |-> {},         \* the active objectives
          fixed |-> NotFixed,    \* model.c.fix (is_variant_valid)
          value |-> NoValue]     \* the loaded solution

\* the assignments a model admits
Feasible(m) ==
    {a \in Assignments :
        /\ m.XB \subseteq a.b
        /\ (m.fixed.on => a.c = m.fixed.cards)
        /\ \A n \in DOMAIN m.Variants : ExclusionHolds(m.Variants[n], a)
        /\ \A n \in DOMAIN m.Sequential : SequentialHolds(m.Sequential[n], a)
        /\ ConstraintV(a)
        /\ ComboConstraints(a)
        /\ FeatureConstraints(a)}

\* a mis-translation of the objectives' senses: cards maximised, the others
\* minimised
BetterReversed(objective, x, y) == IF objective = "MinimizeCards" THEN x >= y ELSE x <= y

\* the solver minimises MinimizeCards and maximises the other objectives
Better(objective, x, y) == IF objective = "MinimizeCards" THEN x <= y ELSE x >= y

\* a solver that returns any feasible assignment
AnyFeasible(F, objective) == F

\* the assignments of F that are optimal for an objective
OptimalAmong(F, objective) ==
    {a \in F : \A a2 \in F :
        Better(objective, ObjectiveValue(objective, a), ObjectiveValue(objective, a2))}

\* the solutions opt.solve may load when it ends optimal: the feasible
\* assignments that are optimal for the one active objective
Optimal(m) == OptimalAmong(Feasible(m), CHOOSE o \in m.active : TRUE)

\* a mis-translation of line 173: no copy is made, the seeds share the object
\* the earlier seeds wrote to
clone_shared(m, written) == IF written.none THEN m ELSE written

\* base_model.clone() (lines 173 and 179): a deep copy of m; what was written
\* to an earlier clone of m does not show in it
clone(m, written) == m

\* combo_model (lines 172-175): a clone with model.XB
combo_model(m, combo) == [m EXCEPT !.XB = {combo}]

\* exclude_variants_model (lines 178-185): a clone with one exclusion per
\* NOT_WORKING variant, in unique_id order, and the objective obj
not_working_variants(table) == {u \in DOMAIN table : table[u].status = Status_NOT_WORKING}

RECURSIVE ExclusionsOf(_, _)
ExclusionsOf(table, ids) ==
    IF ids = {} THEN <<>>
    ELSE LET u == CHOOSE x \in ids : TRUE
         IN <<table[u].includes>> \o ExclusionsOf(table, ids \ {u})

exclude_variants_model(m, table) ==
    [m EXCEPT !.Variants = ExclusionsOf(table, not_working_variants(table)),
              !.active = {"obj"}]

\* ------------------------------------------------------------------------
\* The variant table
\* ------------------------------------------------------------------------
\* '\n'.join(c.prerequisites for c in combos) and the same for description
\* (lines 80-82 and 99-101): the text of combo i stands as i, the joined text
\* as the list of the combos in id order
JoinedText(combos_included) == sorted(combos_included)
\* a text no combo produces: what a curator wrote
CuratedText == <<0>>

\* set(variant.of.values_list('removes__id', flat=True))
RemovedBy(of) == UNION {combos[i].removes : i \in of}

\* a mis-translation of removed_features: nothing is subtracted
features_kept(of, feature_ids) == feature_ids

\* removed_features (lines 65-66)
removed_features(of, feature_ids) == feature_ids \ RemovedBy(of)

\* a mis-translation of line 85: a restored variant keeps its status when valid
StatusKeptOnRestore(status, ok, restore) ==
    IF ~ok THEN Status_NOT_WORKING ELSE status

\* a mis-translation of lines 85-87: the two statuses are swapped
StatusSwapped(status, ok, restore) ==
    LET s1 == IF restore
              THEN (IF ok THEN Status_NOT_WORKING ELSE Status_NEW)
              ELSE status
    IN IF ~ok THEN Status_NEW ELSE s1

\* a mis-translation of line 85: a restored variant that is valid is approved
StatusRestoredAsOK(status, ok, restore) ==
    LET s1 == IF restore
              THEN (IF ok THEN Status_OK ELSE Status_NOT_WORKING)
              ELSE status
    IN IF ~ok THEN Status_NOT_WORKING ELSE s1

\* the status update_variant leaves in the row (lines 79-87)
StatusAfterUpdate(status, ok, restore) ==
    LET s1 == IF restore
              THEN (IF ok THEN Status_NEW ELSE Status_NOT_WORKING)
              ELSE status
    IN IF ~ok THEN Status_NOT_WORKING ELSE s1

\* a mis-translation of lines 79-82: the text is also recomputed when the
\* variant failed the validity check
update_variant_refreshing(table, unique_id, combos_included, feature_ids, ok, restore) ==
    LET row == table[unique_id]
        text == JoinedText(combos_included)
    IN [table EXCEPT ![unique_id] =
            [includes |-> row.includes,
             of |-> combos_included,
             produces |-> removed_features(combos_included, feature_ids),
             prerequisites |-> IF restore \/ ~ok THEN text ELSE row.prerequisites,
             description |-> IF restore \/ ~ok THEN text ELSE row.description,
             status |-> StatusAfterUpdate(row.status, ok, restore)]]

\* update_variant (lines 69-89)
update_variant(table, unique_id, combos_included, feature_ids, ok, restore) ==
    LET row == table[unique_id]
        text == JoinedText(combos_included)
    IN [table EXCEPT ![unique_id] =
            [includes |-> row.includes,
             of |-> combos_included,
             produces |-> removed_features(combos_included, feature_ids),
             prerequisites |-> IF restore THEN text ELSE row.prerequisites,
             description |-> IF restore THEN text ELSE row.description,
             status |-> StatusAfterUpdate(row.status, ok, restore)]]

\* the default of Variant.status
DefaultStatus == Status_NEW

\* create_variant (lines 92-108)
create_variant(table, unique_id, card_list, combos_included, feature_ids, ok) ==
    LET text == JoinedText(combos_included)
        row == [includes |-> Range(card_list),
                of |-> combos_included,
                produces |-> removed_features(combos_included, feature_ids),
                prerequisites |-> text,
                description |-> text,
                status |-> IF ~ok THEN Status_NOT_WORKING ELSE DefaultStatus]
    IN [u \in (DOMAIN table) \cup {unique_id} |-> IF u = unique_id THEN row ELSE table[u]]

\* a mis-translation of line 297: nothing is deleted
delete_nothing(table, to_delete) == table

\* data.variants.filter(unique_id__in=to_delete).delete() (line 297)
delete_variants(table, to_delete) == [u \in (DOMAIN table) \ to_delete |-> table[u]]

\* generate_variants without transaction.atomic(): what was written stays
NoRollback(table, saved) == table

\* leaving `with transaction.atomic()` by an exception (line 257)
Rollback(table, saved) == saved

\* ------------------------------------------------------------------------
\* Initial states
\* ------------------------------------------------------------------------
\* the catalogs of a behaviour. Combo 1 produces feature 1; combo 2 needs
\* feature 1, produces feature 2 and removes feature 1. With combo 1 needing
\* feature 2 the two combos form a cycle; with no requirement at all combo 1
\* is always active; feature 1 may also be granted by card 3.
Catalogs ==
    {[cards |-> cs,
      combos |-> <<[includes |-> inc1 \cap cs, needs |-> n1, produces |-> {1},
                    removes |-> {}, generator |-> g1],
                   [includes |-> inc2 \cap cs, needs |-> {1}, produces |-> {2},
                    removes |-> {1}, generator |-> TRUE]>>,
      features |-> <<[cards |-> fc1 \cap cs], [cards |-> {}]>>] :
        cs \in {{}, CardIds},
        inc1 \in {{}, {1, 2}}, n1 \in {{}, {2}}, g1 \in BOOLEAN,
        inc2 \in {{3}, {1}, {1, 2}}, fc1 \in {{}, {3}}}

\* the unique ids of the variants persisted before the first pass
OldIds == {<<1>>, <<1, 2>>}

\* the variant tables before the first pass: rows left by earlier passes over
\* an earlier catalog, with any status
OldTables ==
    UNION {[ids -> {[includes |-> {}, of |-> {}, produces |-> {},
                     prerequisites |-> CuratedText, description |-> CuratedText,
                     status |-> st] : st \in Status}] : ids \in SUBSET OldIds}

WithIncludes(table, cs) ==
    [u \in DOMAIN table |-> [table[u] EXCEPT !.includes = Range(u) \cap cs]]

\* no combo
NoSeed == Min(ComboIds) - 1
NoReturn == <<>>

\* the values the variables of a pass have between passes
PassIdle ==
    /\ pc = "idle"
    /\ savepoint = <<>>
    /\ to_restore = {}
    /\ old_id_set = {}
    /\ model = NoModel
    /\ variant_check_model = NoModel
    /\ found = <<>>
    /\ todo = <<>>
    /\ ret = NoReturn
    /\ failure = "none"
    /\ pending = {}
    /\ seed = NoSeed
    /\ seed_model = NoModel
    /\ priorityc = <<>>
    /\ result = <<>>
    /\ results = <<>>
    /\ rounds = <<>>
    /\ seedLog = <<>>
    /\ seedTimedOut = FALSE
    /\ enumTimedOut = FALSE
    /\ solved = FALSE
    /\ touched = {}
    /\ checked = {}

Init ==
    /\ \E cat \in Catalogs :
        /\ cards = cat.cards
        /\ combos = cat.combos
        /\ features = cat.features
        /\ \E table \in OldTables : variants = WithIncludes(table, cat.cards)
    /\ PassIdle
    /\ events = 0
    /\ prevDone = FALSE
    /\ prevDefinitive = FALSE

\* ------------------------------------------------------------------------
\* generate_variants (lines 256-299), one action per step between two
\* blocking calls (a solve, the database)
\* ------------------------------------------------------------------------
catalogVars == <<cards, combos, features>>
historyVars == <<events, prevDone, prevDefinitive>>

\* an exception leaves `with transaction.atomic()`: the pass ends and the
\* table is what it was when the block was entered
Fail(cause) ==
    /\ pc' = "failed"
    /\ failure' = cause
    /\ variants' = Rollback(variants, savepoint)

\* lines 257-269: the snapshots, the base model, the validity model
StartPass ==
    /\ pc = "idle"
    /\ savepoint' = variants
    /\ to_restore' = {u \in DOMAIN variants : variants[u].status = Status_RESTORE}
    /\ old_id_set' = DOMAIN variants
    /\ model' = base_model
    /\ IF base_model = NoModel
       THEN \* line 289: variants = dict()
            /\ pc' = "save"
            /\ UNCHANGED <<variants, variant_check_model, pending, failure>>
       ELSE IF \E u \in not_working_variants(variants) : variants[u].includes = {}
       THEN \* line 183 with an empty card list: 0 <= -1 is no constraint
            /\ Fail("ValueError")
            /\ UNCHANGED <<variant_check_model, pending>>
       ELSE /\ pc' = "seeds"
            /\ variant_check_model' = exclude_variants_model(base_model, variants)
            /\ pending' = {i \in ComboIds : combos[i].generator}
            /\ UNCHANGED <<variants, failure>>
    /\ UNCHANGED <<catalogVars, found, todo, ret, seed, seed_model, priorityc, result,
                   results, events, rounds, seedLog, seedTimedOut, enumTimedOut, solved,
                   touched, checked, prevDone, prevDefinitive>>

\* lines 246-247: the starmap reaches the next generator combo (in the
\* order the database returns them), clones the model, computes the
\* priorities and enters variants_from_combo up to its first solve
NextSeed ==
    /\ pc = "seeds"
    /\ \E c \in pending :
        LET priority == priority_dict_for_combo(c, 0)
        IN /\ pending' = pending \ {c}
           /\ seed' = c
           /\ IF priority.raised
              THEN /\ Fail("Recursion limit reached")
                   /\ UNCHANGED <<seed_model, priorityc>>
              ELSE /\ pc' = "solve1"
                   /\ seed_model' = [combo_model(clone(model, seed_model), c) EXCEPT
                                        !.active = {"MinimizeCards"}]
                   /\ priorityc' = priority.dict
                   /\ UNCHANGED <<variants, failure>>
    /\ result' = <<>>
    /\ rounds' = <<>>
    /\ seedTimedOut' = FALSE
    /\ UNCHANGED <<catalogVars, historyVars, savepoint, to_restore, old_id_set, model,
                   variant_check_model, found, todo, ret, results, seedLog, enumTimedOut,
                   solved, touched, checked>>

\* a mis-translation of lines 214-217: line 214 is missing
ObjectivesOnlyCleanedUp(m) == [m EXCEPT !.active = {}]

\* lines 214-217: the Sequential bounds are cleared, the objectives deactivated
CleanedUp(m) == [m EXCEPT !.Sequential = <<>>, !.active = {}]

\* lines 214-218 and 241-243: a solve did not end optimal; solve_combo_model
\* cleans up and returns False, the loop breaks, the seed's dict is returned
EndSeed(timedOut) ==
    /\ pc' = "seeds"
    /\ seed_model' = CleanedUp(seed_model)
    /\ results' = Append(results, result)
    /\ seedLog' = Append(seedLog, [seed |-> seed, definitive |-> ~(seedTimedOut \/ timedOut)])
    /\ seedTimedOut' = (seedTimedOut \/ timedOut)
    /\ enumTimedOut' = (enumTimedOut \/ timedOut)
    /\ events' = events + (IF timedOut THEN 1 ELSE 0)

\* what a solve of the seed's model does not touch
SolveFrame ==
    UNCHANGED <<catalogVars, variants, savepoint, to_restore, old_id_set, model,
                variant_check_model, found, todo, ret, failure, pending, seed, priorityc,
                result, rounds, touched, checked, prevDone, prevDefinitive>>

\* a mis-translation of lines 198-203: line 201 is missing, the number of
\* cards is not bounded in the later stages
AfterMinimizeCardsUnbounded(a) ==
    [seed_model EXCEPT !.value = a, !.active = {"MaximizeFeatures"}]

\* lines 198-203
AfterMinimizeCards(a) ==
    [seed_model EXCEPT
        !.value = a,
        !.Sequential = Append(@, [objective |-> "MinimizeCards",
                                  value |-> ObjectiveValue("MinimizeCards", a)]),
        !.active = {"MaximizeFeatures"}]

\* lines 204-208
AfterMaximizeFeatures(a) ==
    [seed_model EXCEPT
        !.value = a,
        !.Sequential = Append(@, [objective |-> "MaximizeFeatures",
                                  value |-> ObjectiveValue("MaximizeFeatures", a)]),
        !.active = {"MaximizeCombos"}]

\* lines 209-213
AfterMaximizeCombos(a) ==
    [seed_model EXCEPT !.value = a, !.Sequential = <<>>, !.active = {}]

\* the model after the solve of a stage ended optimal with assignment a
AfterOptimal(stage, a) ==
    CASE stage = "solve1" -> AfterMinimizeCards(a)
      [] stage = "solve2" -> AfterMaximizeFeatures(a)
      [] stage = "solve3" -> AfterMaximizeCombos(a)

\* where solve_combo_model goes after a stage ended optimal; after the third
\* it returns True to the loop of variants_from_combo
StageAfter(stage) ==
    CASE stage = "solve1" -> "solve2"
      [] stage = "solve2" -> "solve3"
      [] stage = "solve3" -> "round"

\* a solve ends optimal with one of the optimal assignments, or it ends
\* infeasible, or (SOLVE_TIMEOUT) it runs out of time
SolveStage(stage) ==
    /\ pc = stage
    /\ solved' = TRUE
    /\ LET F == Feasible(seed_model)
       IN \/ \E a \in OptimalAmong(F, CHOOSE o \in seed_model.active : TRUE) :
                /\ pc' = StageAfter(stage)
                /\ seed_model' = AfterOptimal(stage, a)
                /\ UNCHANGED <<results, seedLog, seedTimedOut, enumTimedOut, events>>
          \/ /\ F = {}
             /\ EndSeed(FALSE)
          \/ /\ F # {}
             /\ events < MaxEvents
             /\ EndSeed(TRUE)
    /\ SolveFrame

Solve1 == SolveStage("solve1")
Solve2 == SolveStage("solve2")
Solve3 == SolveStage("solve3")

\* a mis-translation of lines 235-238: the combos of a definition are taken
\* to be the seed alone
VariantDefinitionOfSeed(card_id_list, a) ==
    [card_ids |-> card_id_list, combo_ids |-> {seed}, feature_ids |-> a.f]

\* lines 235-238: the variables at 1 in the loaded assignment
VariantDefinition(card_id_list, a) ==
    [card_ids |-> card_id_list, combo_ids |-> a.b, feature_ids |-> a.f]

\* lines 233-240, then the next call of solve_combo_model up to its solve
Round ==
    /\ pc = "round"
    /\ LET a == seed_model.value
       IN IF ~(a.c \subseteq DOMAIN priorityc)
          THEN \* priorityc[c] of a card the seed does not reach
               /\ Fail("KeyError")
               /\ UNCHANGED <<result, rounds, seed_model>>
          ELSE LET card_id_list == sorted_by(a.c, priorityc)
                   unique_id == unique_id_from_cards_ids(card_id_list)
                   definition == VariantDefinition(card_id_list, a)
               IN /\ result' = Put(result, unique_id, definition)
                  /\ rounds' = Append(rounds, card_id_list)
                  /\ IF card_id_list = <<>>
                     THEN \* line 240 with an empty card list: 0 <= -1 is no constraint
                          /\ Fail("ValueError")
                          /\ UNCHANGED seed_model
                     ELSE /\ pc' = "solve1"
                          /\ seed_model' = [seed_model EXCEPT
                                                !.Variants = Append(@, Range(card_id_list)),
                                                !.active = {"MinimizeCards"}]
                          /\ UNCHANGED <<variants, failure>>
    /\ UNCHANGED <<catalogVars, historyVars, savepoint, to_restore, old_id_set, model,
                   variant_check_model, found, todo, ret, pending, seed, priorityc, results,
                   seedLog, seedTimedOut, enumTimedOut, solved, touched, checked>>

\* lines 249-253 and 269: every generator combo is done; the dicts are merged
MergeResults ==
    /\ pc = "seeds"
    /\ pending = {}
    /\ pc' = "save"
    /\ found' = Merge(results)
    /\ todo' = Merge(results)
    /\ UNCHANGED <<catalogVars, historyVars, variants, savepoint, to_restore, old_id_set,
                   model, variant_check_model, ret, failure, pending, seed, seed_model,
                   priorityc, result, results, rounds, seedLog, seedTimedOut, enumTimedOut,
                   solved, touched, checked>>

\* is_variant_valid (lines 188-194) on the validity model with the cards fixed
FixCards(m, card_list) == [m EXCEPT !.fixed = [on |-> TRUE, cards |-> Range(card_list)]]
is_variant_valid(m, card_list) == Feasible(FixCards(m, card_list)) # {}

\* lines 271-287: one iteration of the loop over the found variants
Save ==
    /\ pc = "save"
    /\ todo # <<>>
    /\ LET unique_id == Head(todo).key
           variant_def == Head(todo).value
       IN \E timedOut \in BOOLEAN :
            LET ok == ~timedOut /\ is_variant_valid(variant_check_model, variant_def.card_ids)
            IN /\ timedOut => (events < MaxEvents
                               /\ is_variant_valid(variant_check_model, variant_def.card_ids))
               /\ events' = events + (IF timedOut THEN 1 ELSE 0)
               /\ variant_check_model' =
                    [FixCards(variant_check_model, variant_def.card_ids) EXCEPT
                        !.value = IF ok
                                  THEN CHOOSE a \in Optimal(FixCards(variant_check_model,
                                                                     variant_def.card_ids)) : TRUE
                                  ELSE @]
               /\ variants' =
                    IF unique_id \in old_id_set
                    THEN update_variant(variants, unique_id, variant_def.combo_ids,
                                        variant_def.feature_ids, ok, unique_id \in to_restore)
                    ELSE create_variant(variants, unique_id, variant_def.card_ids,
                                        variant_def.combo_ids, variant_def.feature_ids, ok)
               /\ touched' = touched \cup {unique_id}
               /\ checked' = checked \cup {[unique_id |-> unique_id, ok |-> ok,
                                              timedOut |-> timedOut]}
    /\ todo' = Tail(todo)
    /\ solved' = TRUE
    /\ UNCHANGED <<catalogVars, pc, savepoint, to_restore, old_id_set, model, found, ret,
                   failure, pending, seed, seed_model, priorityc, result, results,
                   rounds, seedLog, seedTimedOut, enumTimedOut, prevDone, prevDefinitive>>

\* lines 290-299: the counts, the deletion, the commit
Finish ==
    /\ pc = "save"
    /\ todo = <<>>
    /\ LET new_id_set == Keys(found)
           to_delete == old_id_set \ new_id_set
           added == new_id_set \ old_id_set
           restored == new_id_set \cap to_restore
       IN /\ variants' = delete_variants(variants, to_delete)
          /\ ret' = <<Cardinality(added), Cardinality(restored), Cardinality(to_delete)>>
    /\ pc' = "done"
    /\ UNCHANGED <<catalogVars, historyVars, savepoint, to_restore, old_id_set, model,
                   variant_check_model, found, todo, failure, pending, seed, seed_model,
                   priorityc, result, results, rounds, seedLog, seedTimedOut, enumTimedOut,
                   solved, touched, checked>>

\* a create, an update or the delete raises a database error
DbError ==
    /\ pc = "save"
    /\ events < MaxEvents
    /\ events' = events + 1
    /\ Fail("DatabaseError")
    /\ UNCHANGED <<catalogVars, savepoint, to_restore, old_id_set, model,
                   variant_check_model, found, todo, ret, pending, seed, seed_model,
                   priorityc, result, results, rounds, seedLog, seedTimedOut,
                   enumTimedOut, solved, touched, checked, prevDone, prevDefinitive>>

\* generate_variants has returned or raised; the caller may run it again
Return ==
    /\ pc \in {"done", "failed"}
    /\ pc' = "idle"
    /\ savepoint' = <<>>
    /\ to_restore' = {}
    /\ old_id_set' = {}
    /\ model' = NoModel
    /\ variant_check_model' = NoModel
    /\ found' = <<>>
    /\ todo' = <<>>
    /\ ret' = NoReturn
    /\ failure' = "none"
    /\ pending' = {}
    /\ seed' = NoSeed
    /\ seed_model' = NoModel
    /\ priorityc' = <<>>
    /\ result' = <<>>
    /\ results' = <<>>
    /\ rounds' = <<>>
    /\ seedLog' = <<>>
    /\ seedTimedOut' = FALSE
    /\ enumTimedOut' = FALSE
    /\ solved' = FALSE
    /\ touched' = {}
    /\ checked' = {}
    /\ prevDone' = (pc = "done")
    /\ prevDefinitive' = (pc = "done" /\ ~enumTimedOut)
    /\ UNCHANGED <<catalogVars, variants, events>>

\* a curator changes the status of a variant between two passes
ExternalSetStatus ==
    /\ pc = "idle"
    /\ events < MaxEvents
    /\ events' = events + 1
    /\ \E u \in DOMAIN variants, st \in Status :
        /\ st # variants[u].status
        /\ variants' = [variants EXCEPT ![u].status = st]
    /\ prevDone' = FALSE
    /\ prevDefinitive' = FALSE
    /\ UNCHANGED <<catalogVars, pc, savepoint, to_restore, old_id_set, model,
                   variant_check_model, found, todo, ret, failure, pending, seed,
                   seed_model, priorityc, result, results, rounds, seedLog,
                   seedTimedOut, enumTimedOut, solved, touched, checked>>

Next ==
    \/ StartPass
    \/ NextSeed
    \/ Solve1
    \/ Solve2
    \/ Solve3
    \/ Round
    \/ MergeResults
    \/ Save
    \/ Finish
    \/ DbError
    \/ Return
    \/ ExternalSetStatus

Spec == Init /\ [][Next]_vars

\* ------------------------------------------------------------------------
\* What the catalog means, independently of the MILP
\* ------------------------------------------------------------------------
\* one round of the AND/OR rules: a combo is active when all its cards and
\* features are, a feature when a card or a combo that yields it is
RuleStep(S, st) ==
    [f |-> {j \in FeatureIds : \/ features[j].cards \cap S # {}
                               \/ produced_by_combos(j) \cap st.b # {}},
     b |-> {i \in ComboIds : /\ combos[i].includes \subseteq S
                             /\ combos[i].needs \subseteq st.f}]

RECURSIVE RuleClosure(_, _, _)
RuleClosure(S, st, n) == IF n = 0 THEN st ELSE RuleClosure(S, RuleStep(S, st), n - 1)

\* what the cards of S make active, from nothing
ActiveUnder(S) ==
    RuleClosure(S, [f |-> {}, b |-> {}], 2 * (Cardinality(FeatureIds) + Cardinality(ComboIds)))

Activates(S, s) == s \in ActiveUnder(S).b

\* the combos whose features combo i needs
Producers(i) == UNION {produced_by_combos(f) : f \in combos[i].needs}

RECURSIVE ReachIn(_, _)
ReachIn(X, n) ==
    IF n = 0 THEN X ELSE ReachIn(X \cup UNION {Producers(i) : i \in X}, n - 1)

\* the combos reachable from the combos of X through needed features
ReachableFrom(X) == ReachIn(X, Cardinality(ComboIds))

\* a cycle of the combo -> needed feature -> producing combo graph is
\* reachable from s
Cyclic(s) == \E i \in ReachableFrom({s}) : i \in ReachableFrom(Producers(i))

\* the minimal card sets that make s active
MinimalCardSets(s) ==
    {S \in SUBSET cards :
        /\ Cardinality(S) <= MAX_CARDS_IN_COMBO
        /\ Activates(S, s)
        /\ \A T \in SUBSET S : T # S => ~Activates(T, s)}

\* the card sets of a result dict
CardSetsOf(d) == {Range(d[n].value.card_ids) : n \in DOMAIN d}

\* ------------------------------------------------------------------------
\* Claims
\* ------------------------------------------------------------------------

SeedFeasibleWith(s, S) ==
    \E a \in Feasible(combo_model(base_model, s)) : a.c = S

MinimalFor(s, d) ==
    \A n \in DOMAIN d :
        LET S == Range(d[n].value.card_ids)
        IN \A k \in S : ~SeedFeasibleWith(s, S \ {k})

\* C2: minimality. Every variant a seed has discovered, in any round, loses
\* the seed when any one of its cards is removed: the seeded model has no
\* solution with exactly the remaining cards.
C2_Minimality ==
    /\ seed \in ComboIds => MinimalFor(seed, result)
    /\ \A n \in DOMAIN results : MinimalFor(seedLog[n].seed, results[n])

\* a second round of a seed found a variant of two cards or more
C2_Witness ==
    /\ Len(rounds) >= 2
    /\ Len(rounds[2]) >= 2
    /\ Len(result) >= 2

\* C3 as stated: a pass that commits right after a committed pass, with no
\* change in between, returns (0, 0, 0).
C3_Idempotence_AsStated ==
    (pc = "done" /\ prevDone) => ret = <<0, 0, 0>>

\* C3 amended: ... returns (0, 0, 0) provided no solve of the enumeration timed
\* out in either pass.
C3_Idempotence ==
    (pc = "done" /\ prevDefinitive /\ ~enumTimedOut) => ret = <<0, 0, 0>>

\* a second pass in a row committed, with a variant that was RESTORE or
\* NOT_WORKING before the first of them still in the table
C3_Witness ==
    /\ pc = "done"
    /\ prevDefinitive
    /\ ~enumTimedOut
    /\ \E u \in DOMAIN variants :
        /\ variants[u].description # CuratedText \/ variants[u].status = Status_NOT_WORKING
        /\ u \in OldIds

\* C4: all or nothing. When a pass ends by an exception, the variant table is
\* the table the pass started from.
C4_AllOrNothing ==
    pc = "failed" => variants = savepoint

\* a pass failed after it had created a variant, which is gone
C4_Witness ==
    /\ pc = "failed"
    /\ failure = "DatabaseError"
    /\ \E u \in touched : u \notin DOMAIN variants

\* the unique ids the seeds of this pass discovered
DiscoveredIds == UNION {Keys(results[n]) : n \in DOMAIN results}

RestoreSnapshot == {u \in DOMAIN savepoint : savepoint[u].status = Status_RESTORE}

\* C5: after a pass commits, the persisted unique ids are the discovered
\* ones, a created variant has the cards of its definition, and the counts
\* are those of the discovered ids against the table before the pass.
C5_StoreEqualsDiscovery ==
    pc = "done" =>
        /\ DOMAIN variants = DiscoveredIds
        /\ \A u \in DiscoveredIds \ DOMAIN savepoint :
                variants[u].includes = Range(u)
        /\ ret = <<Cardinality(DiscoveredIds \ DOMAIN savepoint),
                   Cardinality(DiscoveredIds \cap RestoreSnapshot),
                   Cardinality((DOMAIN savepoint) \ DiscoveredIds)>>

\* a pass committed that added, restored and deleted a variant
C5_Witness ==
    /\ pc = "done"
    /\ ret[1] >= 1
    /\ ret[2] >= 1
    /\ ret[3] >= 1

\* C6: NOT_WORKING is sticky. A variant that was NOT_WORKING when a pass
\* started and is still in the table is NOT_WORKING, at every point of the
\* pass and when it has ended.
C6_NotWorkingSticky ==
    pc # "idle" =>
        \A u \in (DOMAIN savepoint) \cap (DOMAIN variants) :
            savepoint[u].status = Status_NOT_WORKING
                => variants[u].status = Status_NOT_WORKING

\* a second pass in a row rediscovered and updated a NOT_WORKING variant
C6_Witness ==
    /\ pc = "done"
    /\ prevDone
    /\ \E u \in touched \cap DOMAIN savepoint :
            savepoint[u].status = Status_NOT_WORKING

\* C7: monotonic exclusion. The successful rounds of one seed return pairwise
\* different card sets.
C7_MonotonicExclusion ==
    \A i, j \in DOMAIN rounds : i # j => Range(rounds[i]) # Range(rounds[j])

\* a seed had two successful rounds
C7_Witness == Len(rounds) >= 2

\* C8: with no cards base_model returns None, no solve runs, no variant is
\* created or updated, the pass raises nothing of its own, and when it
\* commits the table is empty and the counts are (0, 0, rows before).
C8_EmptyUniverse ==
    (cards = {} /\ pc # "idle") =>
        /\ model = NoModel
        /\ ~solved
        /\ touched = {}
        /\ failure \in {"none", "DatabaseError"}
        /\ pc = "done" =>
            /\ variants = <<>>
            /\ ret = <<0, 0, Cardinality(DOMAIN savepoint)>>

\* a pass over a catalog without cards committed and deleted variants
C8_Witness ==
    /\ cards = {}
    /\ pc = "done"
    /\ ret[3] >= 1

\* the seeds whose enumeration returned in this pass
ReturnedSeeds == {seedLog[n].seed : n \in DOMAIN seedLog}

\* C9: cycle protection. For a generator combo that reaches a cycle,
\* priority_dict_for_combo raises after RECURSION_LIMIT / 2 + 2 calls (the
\* counter grows by 2 per call, along the one chain these catalogs have), the
\* seed's enumeration never runs and the pass fails.
C9_CycleProtection ==
    \A s \in ComboIds :
        (combos[s].generator /\ Cyclic(s)) =>
            /\ priority_dict_for_combo(s, 0).raised
            /\ priority_dict_for_combo(s, 0).calls <= RECURSION_LIMIT \div 2 + 2
            /\ s \notin ReturnedSeeds
            /\ seed = s => (pc = "failed" /\ result = <<>> /\ ~solved)

\* the pass reached a seed on a cycle and failed
C9_Witness ==
    /\ seed \in ComboIds
    /\ Cyclic(seed)
    /\ pc = "failed"
    /\ failure = "Recursion limit reached"

\* C10: a variant created or updated in the pass has for `of` the combos of
\* its definition and for `produces` the features of its definition minus
\* those any combo of `of` removes.
C10_ProducesMinusRemoved ==
    pc \in {"save", "done"} =>
        \A u \in touched :
            LET removed == UNION {combos[i].removes : i \in variants[u].of}
            IN /\ u \in DOMAIN variants
               /\ variants[u].of = Get(found, u).combo_ids
               /\ variants[u].produces = Get(found, u).feature_ids \ removed
               /\ variants[u].produces \cap removed = {}

\* a pass committed with an updated variant one of whose active features is
\* removed by one of its combos
C10_Witness ==
    /\ pc = "done"
    /\ \E u \in touched \cap DOMAIN savepoint :
            variants[u].produces # Get(found, u).feature_ids

\* the card sets of the variants that were NOT_WORKING when the pass started
NotWorkingAtStart == {savepoint[u].includes : u \in not_working_variants(savepoint)}

\* C11 as stated: is_variant_valid answers false for a candidate exactly when
\* its card set equals the card set of a variant NOT_WORKING at the start of
\* the pass (solves that timed out left aside); a strict superset is valid.
C11_ExactSetOnly_AsStated ==
    \A r \in checked :
        ~r.timedOut => (~r.ok <=> Range(r.unique_id) \in NotWorkingAtStart)

\* C11: is_variant_valid answers false for a candidate when its solve times
\* out; otherwise it answers false exactly when the candidate's card set
\* contains (or equals) the card set of a variant NOT_WORKING at the start of
\* the pass.
C11_SupersetsForbidden ==
    \A r \in checked :
        IF r.timedOut
        THEN ~r.ok
        ELSE ~r.ok <=> \E X \in NotWorkingAtStart : X \subseteq Range(r.unique_id)

\* a candidate that strictly contains a NOT_WORKING card set and equals none
\* was checked without a timeout, and another candidate was found valid
C11_Witness ==
    /\ \E r \in checked :
            /\ ~r.timedOut
            /\ Range(r.unique_id) \notin NotWorkingAtStart
            /\ \E X \in NotWorkingAtStart : X \subseteq Range(r.unique_id)
    /\ \E r \in checked : r.ok

\* the validity answer given for a variant saved in this pass
OkOf(u) == (CHOOSE r \in checked : r.unique_id = u).ok

\* the text generated from the combos of a variant's definition
GeneratedText(u) == sorted(Get(found, u).combo_ids)

\* the associations of a saved variant are those of its definition
AssociationsReplaced(u) ==
    /\ variants[u].of = Get(found, u).combo_ids
    /\ variants[u].produces =
            Get(found, u).feature_ids \ UNION {combos[i].removes : i \in Get(found, u).combo_ids}

\* a variant created in this pass has the generated text and the status
\* NOT_WORKING when invalid, NEW otherwise
CreatedAsRuled(u) ==
    /\ variants[u].prerequisites = GeneratedText(u)
    /\ variants[u].description = GeneratedText(u)
    /\ variants[u].status = IF OkOf(u) THEN Status_NEW ELSE Status_NOT_WORKING

\* C12 as stated: a rediscovered variant has its associations replaced; its
\* text and status are refreshed exactly when it was in the RESTORE snapshot
\* or failed the validity check (the text recomputed in both cases), and are
\* otherwise what they were; a new variant is NOT_WORKING when invalid, NEW
\* otherwise.
C12_UpdateRule_AsStated ==
    pc \in {"save", "done"} =>
        \A u \in touched :
            /\ AssociationsReplaced(u)
            /\ IF u \notin DOMAIN savepoint
               THEN CreatedAsRuled(u)
               ELSE IF u \in to_restore \/ ~OkOf(u)
               THEN /\ variants[u].prerequisites = GeneratedText(u)
                    /\ variants[u].description = GeneratedText(u)
                    /\ variants[u].status =
                            IF OkOf(u) THEN Status_NEW ELSE Status_NOT_WORKING
               ELSE /\ variants[u].prerequisites = savepoint[u].prerequisites
                    /\ variants[u].description = savepoint[u].description
                    /\ variants[u].status = savepoint[u].status

\* C12: a rediscovered variant has its associations replaced; its text is
\* recomputed exactly when it was in the RESTORE snapshot and is otherwise
\* what it was; its status becomes NOT_WORKING when it failed the validity
\* check, NEW when it was in the RESTORE snapshot and is valid, and is
\* otherwise what it was; a new variant is NOT_WORKING when invalid, NEW
\* otherwise.
C12_UpdateRule ==
    pc \in {"save", "done"} =>
        \A u \in touched :
            /\ AssociationsReplaced(u)
            /\ IF u \notin DOMAIN savepoint
               THEN CreatedAsRuled(u)
               ELSE /\ IF u \in to_restore
                       THEN /\ variants[u].prerequisites = GeneratedText(u)
                            /\ variants[u].description = GeneratedText(u)
                       ELSE /\ variants[u].prerequisites = savepoint[u].prerequisites
                            /\ variants[u].description = savepoint[u].description
                    /\ variants[u].status =
                            IF ~OkOf(u) THEN Status_NOT_WORKING
                            ELSE IF u \in to_restore THEN Status_NEW
                            ELSE savepoint[u].status

\* a pass committed after it rediscovered a variant that was not in the
\* RESTORE snapshot, was not NOT_WORKING and failed the validity check: the
\* row is NOT_WORKING with the text it had, which is not the generated text
C12_Witness ==
    /\ pc = "done"
    /\ \E u \in touched \cap DOMAIN savepoint :
            /\ u \notin to_restore
            /\ ~OkOf(u)
            /\ savepoint[u].status # Status_NOT_WORKING
            /\ variants[u].status = Status_NOT_WORKING
            /\ variants[u].description = savepoint[u].description
            /\ variants[u].description # GeneratedText(u)

\* assignment a comes before a2 in the order of the three objectives: fewer
\* cards, then more features, then more combos
LexBetterOrEqual(a, a2) ==
    \/ Cardinality(a.c) < Cardinality(a2.c)
    \/ /\ Cardinality(a.c) = Cardinality(a2.c)
       /\ \/ Cardinality(a.f) > Cardinality(a2.f)
          \/ /\ Cardinality(a.f) = Cardinality(a2.f)
             /\ Cardinality(a.b) >= Cardinality(a2.b)

\* C13: when solve_combo_model has returned True, the loaded assignment is
\* feasible for the seed's model with its current exclusions, has the fewest
\* cards of all feasible assignments, among those the most features, and
\* among those the most combos.
C13_LexicographicOptimum ==
    pc = "round" =>
        /\ seed_model.value \in Feasible(seed_model)
        /\ \A a2 \in Feasible(seed_model) : LexBetterOrEqual(seed_model.value, a2)

\* a round succeeded where the third objective decided: another feasible
\* assignment has as few cards and as many features but fewer combos, and
\* yet another has more cards
C13_Witness ==
    /\ pc = "round"
    /\ \E a2 \in Feasible(seed_model) :
            /\ Cardinality(a2.c) = Cardinality(seed_model.value.c)
            /\ Cardinality(a2.f) = Cardinality(seed_model.value.f)
            /\ Cardinality(a2.b) < Cardinality(seed_model.value.b)
    /\ \E a2 \in Feasible(seed_model) :
            Cardinality(a2.c) > Cardinality(seed_model.value.c)

\* the objective a stage of solve_combo_model solves for
ObjectiveOfStage(stage) ==
    CASE stage = "solve1" -> "MinimizeCards"
      [] stage = "solve2" -> "MaximizeFeatures"
      [] stage = "solve3" -> "MaximizeCombos"

\* C14: whenever solve_combo_model has returned, with True or after a failed
\* first, second or third solve, no objective of the seed's model is active
\* and Sequential is empty, the seed constraint is the seed's and the
\* permanent exclusions are those of the successful rounds so far; at each
\* solve exactly one objective is active, that of the stage.
C14_RoundCleanup ==
    /\ (pc = "round" \/ (pc = "seeds" /\ seedLog # <<>>)) =>
            /\ seed_model.active = {}
            /\ seed_model.Sequential = <<>>
            /\ seed_model.XB = {seed}
            /\ seed_model.Variants = [n \in DOMAIN rounds |-> Range(rounds[n])]
    /\ pc \in {"solve1", "solve2", "solve3"} =>
            /\ seed_model.active = {ObjectiveOfStage(pc)}
            /\ seed_model.XB = {seed}
            /\ seed_model.Variants = [n \in DOMAIN rounds |-> Range(rounds[n])]

\* solve_combo_model returned False from its second or third solve, with a
\* bound in Sequential to clear, in a round after a successful one: the
\* loaded assignment is that of an earlier solve of the failed round, since
\* it respects the exclusion of every successful round
C14_Witness ==
    /\ pc = "seeds"
    /\ seedLog # <<>>
    /\ ~seedLog[Len(seedLog)].definitive
    /\ seed_model.Variants # <<>>
    /\ seed_model.value \in Feasible(seed_model)

\* the cards that directly grant a feature combo i needs
GrantingCards(i) == UNION {features[f].cards : f \in combos[i].needs}

\* C15: in the priority dict of the running seed (priority_dict_for_combo at
\* depth 0 on an acyclic graph) every card the seed includes has depth 0,
\* also when it grants a needed feature as well; every other card that
\* grants a needed feature has depth 1; every remaining card has depth 2 or
\* more.
C15_DepthPrecedence ==
    (seed \in ComboIds /\ pc \in {"solve1", "solve2", "solve3", "round"}) =>
        /\ combos[seed].includes \cup GrantingCards(seed) \subseteq DOMAIN priorityc
        /\ \A k \in DOMAIN priorityc :
                IF k \in combos[seed].includes THEN priorityc[k] = 0
                ELSE IF k \in GrantingCards(seed) THEN priorityc[k] = 1
                ELSE priorityc[k] >= 2

\* the card sets a seed's model still admits, whatever the objective
AdmissibleCardSets(m) == {a.c : a \in Feasible(CleanedUp(m))}

\* the loop of variants_from_combo is running for a seed
InLoop == pc \in {"solve1", "solve2", "solve3", "round"}

\* an exception left the loop of variants_from_combo
LoopRaised == pc = "failed" /\ seed \in ComboIds /\ failure \in {"KeyError", "ValueError"}

\* the successful rounds of the running seed each removed their card set
\* from the admissible card sets, and they found different card sets
RoundsShrink ==
    /\ \A n \in DOMAIN rounds : Range(rounds[n]) \notin AdmissibleCardSets(seed_model)
    /\ \A n, k \in DOMAIN rounds : n # k => Range(rounds[n]) # Range(rounds[k])

\* C16: the loop of a seed makes finitely many successful rounds, each of
\* which strictly shrinks the admissible card sets, so that at most as many
\* rounds succeed as there are card sets; the loop always can go on until a
\* round fails, and it ends by that failed round, never by an error.
C16_Termination ==
    /\ InLoop => ENABLED (Solve1 \/ Solve2 \/ Solve3 \/ Round)
    /\ (pc \in {"solve1", "solve2", "solve3", "seeds"} /\ seed \in ComboIds) => RoundsShrink
    /\ Len(rounds) <= Cardinality(SUBSET cards)
    /\ ~LoopRaised

\* C17: what the enumeration of a seed adds (its seed constraint, its
\* exclusions, the loaded assignments) is in that seed's model only: the
\* base model stays as built, the validity model holds the exclusions of the
\* NOT_WORKING variants only and no assignment before the save loop, and the
\* running seed's model holds its own seed constraint and the exclusions of
\* its own rounds; so the card sets a seed's loop returns (no solve having
\* timed out) are the same at every position in the processing order.
C17_SeedIsolation ==
    /\ pc # "idle" => model = base_model
    /\ (pc # "idle" /\ ~variant_check_model.none) =>
            /\ variant_check_model.XB = {}
            /\ variant_check_model.Sequential = <<>>
            /\ variant_check_model.Variants =
                    ExclusionsOf(savepoint, not_working_variants(savepoint))
            /\ (InLoop \/ pc = "seeds") =>
                    /\ variant_check_model.value = NoValue
                    /\ variant_check_model.fixed = NotFixed
    /\ (InLoop \/ (pc = "seeds" /\ seed \in ComboIds)) =>
            /\ seed_model.XB = {seed}
            /\ \A n \in DOMAIN seed_model.Variants :
                    \E k \in DOMAIN rounds : seed_model.Variants[n] = Range(rounds[k])
    /\ \A n \in DOMAIN results :
            seedLog[n].definitive =>
                CardSetsOf(results[n]) = MinimalCardSets(seedLog[n].seed)

\* two seeds were enumerated, the one with the greater id first, each found
\* a variant, and the second started after the first had added exclusions
C17_Witness ==
    /\ Len(results) = 2
    /\ seedLog[1].seed > seedLog[2].seed
    /\ seedLog[1].definitive /\ seedLog[2].definitive
    /\ results[1] # <<>> /\ results[2] # <<>>
    /\ CardSetsOf(results[1]) # CardSetsOf(results[2])

\* C18: when a pass has committed, no variant of the table has the status
\* RESTORE: the variants of the RESTORE snapshot were rediscovered and became
\* NEW or NOT_WORKING, or were deleted.
C18_NoRestoreLeft ==
    pc = "done" =>
        /\ \A u \in DOMAIN variants : variants[u].status # Status_RESTORE
        /\ \A u \in to_restore :
                IF u \in Keys(found)
                THEN /\ u \in DOMAIN variants
                     /\ variants[u].status \in {Status_NEW, Status_NOT_WORKING}
                ELSE u \notin DOMAIN variants

\* a pass committed whose RESTORE snapshot held a variant it rediscovered
\* and a variant it did not
C18_Witness ==
    /\ pc = "done"
    /\ \E u \in to_restore : u \in DOMAIN variants
    /\ \E u \in to_restore : u \notin DOMAIN variants

\* the variants the read API serves (views.py: status = OK)
Served(table) == {u \in DOMAIN table : table[u].status = Status_OK}

\* C19: a pass never writes the status OK. While a pass runs and when it has
\* ended, every variant whose status is not the one it had when the pass
\* started is NEW or NOT_WORKING, and every variant that is OK was OK when
\* the pass started: the set of the served variants gains no member.
C19_NeverWritesOK ==
    pc # "idle" =>
        /\ \A u \in DOMAIN variants :
                (u \notin DOMAIN savepoint \/ variants[u].status # savepoint[u].status)
                    => variants[u].status \in {Status_NEW, Status_NOT_WORKING}
        /\ Served(variants) \subseteq Served(savepoint)

\* a pass committed that left one served variant served, took another out
\* of the served set and created a variant
C19_Witness ==
    /\ pc = "done"
    /\ \E u \in touched \cap Served(savepoint) : u \in Served(variants)
    /\ Served(savepoint) \ Served(variants) # {}
    /\ touched \ DOMAIN savepoint # {}

\* the unique ids two different entries of results both hold
FoundTwice(n, k) == IF n = k THEN {} ELSE Keys(results[n]) \cap Keys(results[k])

\* C20: when the loops of two seeds found the same card set, the two
\* definitions have the same combos and the same features, namely those the
\* card set makes active; the combos and features of a merged definition
\* are therefore those its card set makes active, whatever the order in
\* which the seeds were processed.
C20_MergeDeterminism ==
    /\ \A n, k \in DOMAIN results : \A u \in FoundTwice(n, k) :
            /\ Get(results[n], u).combo_ids = Get(results[k], u).combo_ids
            /\ Get(results[n], u).feature_ids = Get(results[k], u).feature_ids
            /\ Range(Get(results[n], u).card_ids) = Range(Get(results[k], u).card_ids)
    /\ \A u \in Keys(found) :
            /\ Get(found, u).combo_ids = ActiveUnder(Range(u)).b
            /\ Get(found, u).feature_ids = ActiveUnder(Range(u)).f

\* two seeds found the same card set, the seed with the greater id first,
\* and the results were merged
C20_Witness ==
    /\ Len(results) = 2
    /\ seedLog[1].seed > seedLog[2].seed
    /\ FoundTwice(1, 2) # {}
    /\ found # <<>>

====
